---- MODULE Spec2Model ----
(***************************************************************************)
(* Model of the IBM Watson speech services of IntegrationOfServices:       *)
(*   Node/services/text_to_speech/text_to_speech_ibm.py                    *)
(*   Node/services/speech_to_text/transcribe_ibm.py                        *)
(* Audio is modelled at byte level: a blob is a sequence of 0..255, a      *)
(* 16-bit sample is two little-endian bytes, a WAV container is the byte   *)
(* layout the Python wave module writes and parses.                        *)
(***************************************************************************)
EXTENDS Integers, Sequences, FiniteSets, TLC

VARIABLES
  pc,           \* synthesize_speech: position ("idle", "wav", "pcm", "beep", "none", "done")
  level,        \* synthesize_speech: degradation level entered last (0 = none yet)
  failed,       \* synthesize_speech: levels whose try block raised
  synthesizer,  \* synthesize_speech: TRUE when a synthesizer object was passed
  wav_in,       \* synthesize_speech: result.content of the audio/wav request
  pcm_in,       \* synthesize_speech: result.content of the audio/l16 request
  result,       \* synthesize_speech: the returned value
  fn,           \* pure functions: name of the function called last
  args,         \* pure functions: its arguments
  out,          \* pure functions: its return value
  buffer,       \* DebugAudioSource: bytes taken from the input and not yet returned
  bytes_read,   \* DebugAudioSource: the counter of bytes taken from the input
  is_recording, \* DebugAudioSource: the recording flag of the audio source
  input_pos,    \* DebugAudioSource: number of bytes the input stream has handed out
  returned,     \* DebugAudioSource: every chunk read() returned, concatenated in order
  read_call,    \* DebugAudioSource: size and return value of the last read(size)
  done,         \* recognition: MyRecognizeCallback.done
  callback,     \* recognition: the callback that ran last and how its write ended
  transcripts,  \* recognition: number of transcript lines written to stdout
  main_pc,      \* recognition: position of the main thread in recognize_from_stdin
  monitor_pc,   \* recognition: position of the monitor thread in monitor_stdin
  loop_pc,      \* synthesis main loop: position ("next", "synthesize", "write", "ended")
  handled,      \* synthesis main loop: the lines read so far and what was done with each
  stdout        \* synthesis main loop: the blobs written to stdout, in order

AdaptVars == <<pc, level, failed, synthesizer, wav_in, pcm_in, result>>

PureVars == <<fn, args, out>>

SourceVars == <<buffer, bytes_read, is_recording, input_pos, returned, read_call>>

RecognizeVars == <<done, callback, transcripts, main_pc, monitor_pc>>

LoopVars == <<loop_pc, handled, stdout>>

ServiceVars == <<SourceVars, RecognizeVars, LoopVars>>

vars == <<pc, level, failed, synthesizer, wav_in, pcm_in, result, fn, args, out, ServiceVars>>

----------------------------------------------------------------------------
(* Bounds of the model *)

\* longest PCM input of the exhaustive inputs, in samples
MaxLen == 3
\* longest constant-valued PCM input, in samples
MaxConstLen == 100

----------------------------------------------------------------------------
(* Bytes and 16-bit samples *)

Min(a, b) == IF a <= b THEN a ELSE b

Abs(x) == IF x < 0 THEN -x ELSE x

\* Python int(x) of the quotient x / d of integers, d > 0: truncation toward zero
TruncDiv(x, d) == IF x >= 0 THEN x \div d ELSE -((-x) \div d)

\* np.round(q0 + num / den): nearest integer, ties to the even one (den > 0, q0 integer)
round_half_even(q0, num, den) ==
  LET base == q0 + (num \div den)
      r    == num % den
  IN IF 2 * r < den THEN base
     ELSE IF 2 * r > den THEN base + 1
     ELSE IF base % 2 = 0 THEN base ELSE base + 1

\* bytes(...) of a Python int: value & 0xFF, (value >> 8) & 0xFF
LE16(n) == <<n % 256, (n \div 256) % 256>>

LE32(n) == <<n % 256, (n \div 256) % 256, (n \div 65536) % 256, (n \div 16777216) % 256>>

\* struct.unpack('<H') / ('<L') at 0-based offset off
U16(b, off) == b[off + 1] + 256 * b[off + 2]

U32(b, off) == b[off + 1] + 256 * b[off + 2] + 65536 * b[off + 3] + 16777216 * b[off + 4]

\* struct.pack('<h', v): two's complement, little-endian
pack_h(v) == LE16(v % 65536)

\* struct.unpack('<h', b[off:off+2])
unpack_h(b, off) == IF U16(b, off) >= 32768 THEN U16(b, off) - 65536 ELSE U16(b, off)

\* np.frombuffer(pcm, dtype=np.int16) (defined for even lengths only)
frombuffer(pcm) == [i \in 1..(Len(pcm) \div 2) |-> unpack_h(pcm, 2 * (i - 1))]

\* ndarray.tobytes() of an int16 array
tobytes(samples) == [k \in 1..(2 * Len(samples)) |-> pack_h(samples[(k + 1) \div 2])[2 - (k % 2)]]

RECURSIVE Concat(_)
Concat(ss) == IF ss = <<>> THEN <<>> ELSE Head(ss) \o Concat(Tail(ss))

----------------------------------------------------------------------------
(* The WAV container as the Python wave module writes and reads it *)

RIFF == <<82, 73, 70, 70>>
WAVE == <<87, 65, 86, 69>>
FMT  == <<102, 109, 116, 32>>
DATA == <<100, 97, 116, 97>>

\* wave_write with the data chunk size written in frames instead of bytes
wave_write_frames(nchannels, sampwidth, framerate, data) ==
  Concat(<< RIFF, LE32(36 + Len(data)), WAVE,
            FMT, LE32(16), LE16(1), LE16(nchannels), LE32(framerate),
            LE32(nchannels * framerate * sampwidth), LE16(nchannels * sampwidth),
            LE16(sampwidth * 8),
            DATA, LE32(Len(data) \div (nchannels * sampwidth)), data >>)

\* wave.open(f, 'wb'); setnchannels; setsampwidth; setframerate; writeframes; close
wave_write(nchannels, sampwidth, framerate, data) ==
  Concat(<< RIFF, LE32(36 + Len(data)), WAVE,
            FMT, LE32(16), LE16(1), LE16(nchannels), LE32(framerate),
            LE32(nchannels * framerate * sampwidth), LE16(nchannels * sampwidth),
            LE16(sampwidth * 8),
            DATA, LE32(Len(data)), data >>)

WaveError == [ok |-> FALSE, nchannels |-> 0, sampwidth |-> 0, framerate |-> 0,
              nframes |-> 0, frames |-> <<>>]

\* Wave_read.initfp chunk loop from 0-based offset off; fmt is the fmt chunk read so far
RECURSIVE wave_chunks(_, _, _)
wave_chunks(b, off, fmt) ==
  IF off + 8 > Len(b) THEN WaveError
  ELSE LET id   == SubSeq(b, off + 1, off + 4)
           size == U32(b, off + 4)
           next == off + 8 + size + (size % 2)
       IN IF id = FMT
          THEN IF size < 16 \/ off + 24 > Len(b) THEN WaveError
               ELSE LET tag == U16(b, off + 8)
                        nch == U16(b, off + 10)
                        sw  == (U16(b, off + 22) + 7) \div 8
                    IN IF tag # 1 \/ sw = 0 \/ nch = 0 THEN WaveError
                       ELSE wave_chunks(b, next,
                              [ok |-> TRUE, nchannels |-> nch, sampwidth |-> sw,
                               framerate |-> U32(b, off + 12), nframes |-> 0,
                               frames |-> <<>>])
          ELSE IF id = DATA
          THEN IF ~fmt.ok THEN WaveError
               ELSE LET framesize == fmt.nchannels * fmt.sampwidth
                        nframes   == size \div framesize
                    IN [fmt EXCEPT !.nframes = nframes,
                          !.frames = SubSeq(b, off + 9,
                                            Min(off + 8 + nframes * framesize, Len(b)))]
          ELSE wave_chunks(b, next, fmt)

\* wave.open(io.BytesIO(b), 'rb') with getnchannels, getsampwidth, getframerate,
\* getnframes and readframes(getnframes()); ok = FALSE when wave.open raises
wave_read(b) ==
  IF Len(b) < 12 \/ SubSeq(b, 1, 4) # RIFF \/ SubSeq(b, 9, 12) # WAVE THEN WaveError
  ELSE wave_chunks(b, 12, WaveError)

----------------------------------------------------------------------------
(* Tones *)

\* int(np.sin(2 * np.pi * 440 * i / 44100) * 3276) for i = 0..219
PilotSamples ==
  <<
     0, 205, 409, 612, 812, 1010, 1203, 1391, 1574, 1751, 1921, 2084, 2238, 2383, 2520, 2646,
     2762, 2866, 2960, 3042, 3112, 3170, 3216, 3248, 3268, 3275, 3270, 3251, 3220, 3176, 3119, 3051,
     2970, 2878, 2774, 2659, 2534, 2399, 2255, 2102, 1940, 1771, 1595, 1412, 1225, 1032, 835, 635,
     432, 228, 23, -181, -386, -589, -790, -987, -1181, -1370, -1554, -1732, -1902, -2066, -2221, -2367,
     -2505, -2632, -2749, -2855, -2950, -3033, -3105, -3164, -3211, -3245, -3267, -3275, -3271, -3254, -3224, -3182,
     -3126, -3059, -2980, -2889, -2786, -2673, -2549, -2415, -2272, -2120, -1959, -1791, -1615, -1434, -1246, -1054,
     -858, -658, -455, -251, -46, 158, 363, 566, 767, 965, 1159, 1349, 1533, 1712, 1883, 2048,
     2204, 2351, 2489, 2618, 2736, 2844, 2940, 3025, 3097, 3158, 3206, 3242, 3265, 3275, 3272, 3257,
     3228, 3187, 3133, 3067, 2989, 2900, 2799, 2686, 2564, 2431, 2289, 2137, 1978, 1810, 1635, 1454,
     1268, 1076, 880, 681, 479, 275, 70, -135, -340, -543, -744, -943, -1137, -1328, -1513, -1692,
     -1864, -2029, -2186, -2335, -2474, -2604, -2723, -2832, -2929, -3016, -3090, -3152, -3201, -3239, -3263, -3274,
     -3273, -3259, -3232, -3192, -3140, -3076, -2999, -2910, -2811, -2700, -2578, -2446, -2305, -2155, -1996, -1829,
     -1656, -1475, -1289, -1098, -902, -703, -502, -298, -93, 111, 316, 520, 722, 920, 1116, 1306,
     1492, 1672, 1845, 2011, 2169, 2318, 2459, 2590, 2710, 2820, 2919, 3006
  >>

\* int(np.sin(2 * np.pi * 880 * i / 44100) * 16383) for i = 0..2204 (one period of i)
BeepPeriod ==
  <<
     0, 2048, 4065, 6017, 7876, 9610, 11194, 12602, 13812, 14805, 15566, 16083, 16347, 16354, 16104, 15602, 14855, 13874, 12676, 11279, 9705,
     7978, 6126, 4178, 2164, 116, -1932, -3952, -5909, -7773, -9516, -11109, -12527, -13749, -14755, -15529, -16060, -16338, -16360, -16125, -15637, -14904,
     -13936, -12750, -11363, -9798, -8080, -6234, -4290, -2280, -233, 1816, 3838, 5800, 7670, 9420, 11022, 12452, 13685, 14704, 15492, 16037, 16329,
     16366, 16146, 15672, 14952, 13997, 12823, 11447, 9892, 8181, 6342, 4403, 2395, 350, -1700, -3725, -5690, -7567, -9325, -10936, -12375, -13621,
     -14652, -15453, -16012, -16320, -16371, -16165, -15705, -14999, -14057, -12895, -11530, -9984, -8282, -6449, -4515, -2510, -466, 1584, 3611, 5581, 7463,
     9228, 10849, 12299, 13555, 14600, 15414, 15987, 16309, 16375, 16184, 15738, 15046, 14117, 12967, 11613, 10077, 8382, 6556, 4627, 2626, 583,
     -1468, -3497, -5471, -7359, -9132, -10761, -12221, -13490, -14546, -15374, -15961, -16298, -16378, -16201, -15770, -15092, -14176, -13038, -11695, -10168, -8482,
     -6663, -4739, -2741, -700, 1352, 3383, 5361, 7255, 9035, 10673, 12143, 13423, 14492, 15334, 15935, 16285, 16380, 16218, 15801, 15137, 14234,
     13108, 11776, 10260, 8582, 6770, 4851, 2856, 816, -1235, -3269, -5250, -7150, -8937, -10584, -12065, -13356, -14437, -15292, -15907, -16272, -16382,
     -16234, -15832, -15181, -14291, -13178, -11857, -10350, -8681, -6876, -4962, -2971, -933, 1119, 3154, 5140, 7045, 8839, 10494, 11985, 13288, 14382,
     15250, 15879, 16258, 16382, 16249, 15861, 15224, 14348, 13247, 11937, 10441, 8780, 6981, 5073, 3085, 1049, -1003, -3040, -5029, -6939, -8740,
     -10405, -11905, -13219, -14326, -15207, -15850, -16243, -16382, -16264, -15890, -15267, -14404, -13315, -12017, -10530, -8878, -7087, -5184, -3200, -1166, 886,
     2925, 4918, 6833, 8642, 10314, 11825, 13150, 14269, 15163, 15820, 16228, 16381, 16278, 15918, 15309, 14459, 13383, 12096, 10619, 8976, 7192,
     5295, 3314, 1282, -769, -2810, -4806, -6727, -8542, -10223, -11744, -13080, -14211, -15119, -15789, -16211, -16379, -16290, -15945, -15350, -14514, -13450,
     -12174, -10708, -9073, -7297, -5405, -3429, -1398, 653, 2695, 4694, 6620, 8442, 10132, 11662, 13009, 14152, 15073, 15757, 16194, 16377, 16302,
     15972, 15390, 14568, 13516, 12252, 10796, 9170, 7401, 5515, 3543, 1515, -536, -2580, -4583, -6513, -8342, -10040, -11580, -12938, -14093, -15027,
     -15725, -16176, -16373, -16313, -15997, -15430, -14621, -13582, -12329, -10884, -9267, -7505, -5625, -3656, -1631, 420, 2464, 4470, 6406, 8241, 9947,
     11497, 12866, 14033, 14980, 15692, 16157, 16369, 16324, 16022, 15469, 14673, 13647, 12406, 10971, 9363, 7608, 5734, 3770, 1747, -303, -2349,
     -4358, -6299, -8140, -9854, -11414, -12794, -13973, -14933, -15658, -16138, -16364, -16333, -16046, -15507, -14724, -13711, -12482, -11057, -9458, -7711, -5843,
     -3884, -1863, 186, 2233, 4245, 6191, 8039, 9761, 11330, 12720, 13912, 14884, 15623, 16117, 16358, 16342, 16069, 15544, 14775, 13774, 12557,
     11143, 9553, 7814, 5952, 3997, 1979, -70, -2118, -4133, -6083, -7937, -9667, -11245, -12647, -13850, -14835, -15588, -16096, -16351, -16350, -16091,
     -15581, -14825, -13837, -12632, -11228, -9648, -7917, -6061, -4110, -2095, -46, 2002, 4020, 5974, 7835, 9572, 11160, 12572, 13787, 14785, 15552,
     16074, 16343, 16357, 16113, 15616, 14875, 13899, 12706, 11313, 9742, 8019, 6169, 4223, 2210, 163, -1886, -3906, -5865, -7732, -9477, -11074,
     -12497, -13724, -14735, -15514, -16051, -16335, -16363, -16134, -15651, -14923, -13961, -12779, -11397, -9836, -8120, -6277, -4335, -2326, -280, 1770, 3793,
     5756, 7629, 9382, 10988, 12421, 13659, 14683, 15477, 16027, 16326, 16368, 16153, 15685, 14971, 14021, 12852, 11480, 9929, 8221, 6385, 4448,
     2441, 396, -1654, -3679, -5647, -7525, -9286, -10901, -12345, -13595, -14631, -15438, -16002, -16315, -16373, -16172, -15719, -15018, -14081, -12924, -11563,
     -10021, -8322, -6492, -4560, -2557, -513, 1538, 3565, 5537, 7422, 9190, 10814, 12268, 13529, 14578, 15398, 15977, 16305, 16376, 16191, 15751,
     15064, 14141, 12995, 11646, 10113, 8422, 6599, 4672, 2672, 630, -1422, -3451, -5427, -7317, -9093, -10726, -12190, -13463, -14525, -15358, -15951,
     -16293, -16379, -16208, -15783, -15110, -14199, -13066, -11728, -10205, -8522, -6706, -4784, -2787, -746, 1305, 3337, 5317, 7213, 8996, 10637, 12112,
     13396, 14470, 15317, 15924, 16280, 16381, 16225, 15814, 15154, 14257, 13136, 11809, 10296, 8622, 6812, 4895, 2902, 863, -1189, -3223, -5206,
     -7108, -8898, -10548, -12033, -13329, -14415, -15275, -15896, -16267, -16382, -16240, -15844, -15198, -14314, -13205, -11889, -10387, -8721, -6918, -5007, -3017,
     -979, 1072, 3108, 5095, 7002, 8800, 10459, 11953, 13260, 14359, 15233, 15867, 16252, 16382, 16255, 15873, 15241, 14371, 13274, 11969, 10477,
     8819, 7024, 5118, 3131, 1096, -956, -2994, -4984, -6897, -8701, -10369, -11873, -13192, -14303, -15190, -15838, -16237, -16382, -16269, -15901, -15284,
     -14426, -13342, -12049, -10566, -8917, -7129, -5228, -3246, -1212, 839, 2879, 4873, 6791, 8602, 10278, 11793, 13122, 14246, 15145, 15808, 16221,
     16381, 16283, 15929, 15325, 14481, 13410, 12127, 10655, 9015, 7234, 5339, 3360, 1329, -723, -2764, -4762, -6684, -8502, -10187, -11711, -13052,
     -14188, -15101, -15776, -16205, -16379, -16295, -15956, -15366, -14535, -13476, -12206, -10743, -9112, -7338, -5449, -3474, -1445, 606, 2649, 4650, 6578,
     8402, 10095, 11629, 12981, 14129, 15055, 15745, 16187, 16376, 16307, 15982, 15406, 14589, 13542, 12283, 10831, 9209, 7442, 5559, 3588, 1561,
     -490, -2534, -4538, -6471, -8302, -10003, -11547, -12909, -14069, -15009, -15712, -16169, -16372, -16318, -16007, -15446, -14642, -13608, -12360, -10918, -9305,
     -7546, -5669, -3702, -1677, 373, 2418, 4425, 6363, 8201, 9910, 11464, 12837, 14009, 14961, 15679, 16150, 16367, 16328, 16032, 15484, 14694,
     13672, 12436, 11005, 9401, 7650, 5778, 3816, 1793, -256, -2303, -4313, -6256, -8100, -9817, -11380, -12764, -13948, -14913, -15644, -16130, -16362,
     -16337, -16055, -15522, -14745, -13736, -12512, -11091, -9497, -7753, -5887, -3929, -1909, 140, 2187, 4200, 6147, 7998, 9723, 11296, 12691, 13887,
     14865, 15609, 16109, 16355, 16345, 16078, 15559, 14795, 13800, 12587, 11177, 9591, 7855, 5996, 4042, 2025, -23, -2071, -4087, -6039, -7896,
     -9629, -11211, -12617, -13825, -14815, -15573, -16087, -16348, -16352, -16100, -15595, -14845, -13862, -12661, -11262, -9686, -7957, -6104, -4155, -2141, -93,
     1956, 3974, 5931, 7794, 9535, 11126, 12542, 13762, 14765, 15537, 16065, 16340, 16359, 16121, 15630, 14894, 13924, 12735, 11346, 9780, 8059,
     6212, 4268, 2256, 210, -1840, -3861, -5822, -7691, -9439, -11040, -12467, -13698, -14714, -15499, -16041, -16331, -16365, -16142, -15665, -14942, -13985,
     -12808, -11430, -9873, -8161, -6320, -4380, -2372, -326, 1724, 3747, 5712, 7588, 9344, 10953, 12391, 13634, 14663, 15461, 16017, 16322, 16370,
     16161, 15699, 14990, 14045, 12881, 11514, 9966, 8262, 6428, 4493, 2487, 443, -1607, -3634, -5603, -7484, -9248, -10866, -12314, -13569, -14610,
     -15422, -15992, -16311, -16374, -16180, -15732, -15036, -14105, -12952, -11596, -10058, -8362, -6535, -4605, -2603, -560, 1491, 3520, 5493, 7380, 9151,
     10779, 12237, 13503, 14557, 15382, 15967, 16300, 16377, 16198, 15764, 15082, 14164, 13024, 11679, 10150, 8462, 6642, 4717, 2718, 676, -1375,
     -3406, -5383, -7276, -9054, -10690, -12159, -13436, -14503, -15342, -15940, -16288, -16380, -16215, -15795, -15128, -14222, -13094, -11760, -10241, -8562, -6748,
     -4828, -2833, -793, 1259, 3291, 5273, 7171, 8957, 10602, 12080, 13369, 14448, 15301, 15913, 16275, 16382, 16231, 15826, 15172, 14280, 13164,
     11841, 10332, 8661, 6854, 4940, 2948, 909, -1142, -3177, -5162, -7066, -8859, -10512, -12001, -13301, -14393, -15259, -15884, -16261, -16382, -16246,
     -15856, -15216, -14337, -13233, -11921, -10423, -8760, -6960, -5051, -3062, -1026, 1026, 3062, 5051, 6960, 8760, 10423, 11921, 13233, 14337, 15216,
     15856, 16246, 16382, 16261, 15884, 15259, 14393, 13301, 12001, 10512, 8859, 7066, 5162, 3177, 1142, -909, -2948, -4940, -6854, -8661, -10332,
     -11841, -13164, -14280, -15172, -15826, -16231, -16382, -16275, -15913, -15301, -14448, -13369, -12080, -10602, -8957, -7171, -5273, -3291, -1259, 793, 2833,
     4828, 6748, 8562, 10241, 11760, 13094, 14222, 15128, 15795, 16215, 16380, 16288, 15940, 15342, 14503, 13436, 12159, 10690, 9054, 7276, 5383,
     3406, 1375, -676, -2718, -4717, -6642, -8462, -10150, -11679, -13024, -14164, -15082, -15764, -16198, -16377, -16300, -15967, -15382, -14557, -13503, -12237,
     -10779, -9151, -7380, -5493, -3520, -1491, 560, 2603, 4605, 6535, 8362, 10058, 11596, 12952, 14105, 15036, 15732, 16180, 16374, 16311, 15992,
     15422, 14610, 13569, 12314, 10866, 9248, 7484, 5603, 3634, 1607, -443, -2487, -4493, -6428, -8262, -9966, -11514, -12881, -14045, -14990, -15699,
     -16161, -16370, -16322, -16017, -15461, -14663, -13634, -12391, -10953, -9344, -7588, -5712, -3747, -1724, 326, 2372, 4380, 6320, 8161, 9873, 11430,
     12808, 13985, 14942, 15665, 16142, 16365, 16331, 16041, 15499, 14714, 13698, 12467, 11040, 9439, 7691, 5822, 3861, 1840, -210, -2256, -4268,
     -6212, -8059, -9780, -11346, -12735, -13924, -14894, -15630, -16121, -16359, -16340, -16065, -15537, -14765, -13762, -12542, -11126, -9535, -7794, -5931, -3974,
     -1956, 93, 2141, 4155, 6104, 7957, 9686, 11262, 12661, 13862, 14845, 15595, 16100, 16352, 16348, 16087, 15573, 14815, 13825, 12617, 11211,
     9629, 7896, 6039, 4087, 2071, 23, -2025, -4042, -5996, -7855, -9591, -11177, -12587, -13800, -14795, -15559, -16078, -16345, -16355, -16109, -15609,
     -14865, -13887, -12691, -11296, -9723, -7998, -6147, -4200, -2187, -140, 1909, 3929, 5887, 7753, 9497, 11091, 12512, 13736, 14745, 15522, 16055,
     16337, 16362, 16130, 15644, 14913, 13948, 12764, 11380, 9817, 8100, 6256, 4313, 2303, 256, -1793, -3816, -5778, -7650, -9401, -11005, -12436,
     -13672, -14694, -15484, -16032, -16328, -16367, -16150, -15679, -14961, -14009, -12837, -11464, -9910, -8201, -6363, -4425, -2418, -373, 1677, 3702, 5669,
     7546, 9305, 10918, 12360, 13608, 14642, 15446, 16007, 16318, 16372, 16169, 15712, 15009, 14069, 12909, 11547, 10003, 8302, 6471, 4538, 2534,
     490, -1561, -3588, -5559, -7442, -9209, -10831, -12283, -13542, -14589, -15406, -15982, -16307, -16376, -16187, -15745, -15055, -14129, -12981, -11629, -10095,
     -8402, -6578, -4650, -2649, -606, 1445, 3474, 5449, 7338, 9112, 10743, 12206, 13476, 14535, 15366, 15956, 16295, 16379, 16205, 15776, 15101,
     14188, 13052, 11711, 10187, 8502, 6684, 4762, 2764, 723, -1329, -3360, -5339, -7234, -9015, -10655, -12127, -13410, -14481, -15325, -15929, -16283,
     -16381, -16221, -15808, -15145, -14246, -13122, -11793, -10278, -8602, -6791, -4873, -2879, -839, 1212, 3246, 5228, 7129, 8917, 10566, 12049, 13342,
     14426, 15284, 15901, 16269, 16382, 16237, 15838, 15190, 14303, 13192, 11873, 10369, 8701, 6897, 4984, 2994, 956, -1096, -3131, -5118, -7024,
     -8819, -10477, -11969, -13274, -14371, -15241, -15873, -16255, -16382, -16252, -15867, -15233, -14359, -13260, -11953, -10459, -8800, -7002, -5095, -3108, -1072,
     979, 3017, 5007, 6918, 8721, 10387, 11889, 13205, 14314, 15198, 15844, 16240, 16382, 16267, 15896, 15275, 14415, 13329, 12033, 10548, 8898,
     7108, 5206, 3223, 1189, -863, -2902, -4895, -6812, -8622, -10296, -11809, -13136, -14257, -15154, -15814, -16225, -16381, -16280, -15924, -15317, -14470,
     -13396, -12112, -10637, -8996, -7213, -5317, -3337, -1305, 746, 2787, 4784, 6706, 8522, 10205, 11728, 13066, 14199, 15110, 15783, 16208, 16379,
     16293, 15951, 15358, 14525, 13463, 12190, 10726, 9093, 7317, 5427, 3451, 1422, -630, -2672, -4672, -6599, -8422, -10113, -11646, -12995, -14141,
     -15064, -15751, -16191, -16376, -16305, -15977, -15398, -14578, -13529, -12268, -10814, -9190, -7422, -5537, -3565, -1538, 513, 2557, 4560, 6492, 8322,
     10021, 11563, 12924, 14081, 15018, 15719, 16172, 16373, 16315, 16002, 15438, 14631, 13595, 12345, 10901, 9286, 7525, 5647, 3679, 1654, -396,
     -2441, -4448, -6385, -8221, -9929, -11480, -12852, -14021, -14971, -15685, -16153, -16368, -16326, -16027, -15477, -14683, -13659, -12421, -10988, -9382, -7629,
     -5756, -3793, -1770, 280, 2326, 4335, 6277, 8120, 9836, 11397, 12779, 13961, 14923, 15651, 16134, 16363, 16335, 16051, 15514, 14735, 13724,
     12497, 11074, 9477, 7732, 5865, 3906, 1886, -163, -2210, -4223, -6169, -8019, -9742, -11313, -12706, -13899, -14875, -15616, -16113, -16357, -16343,
     -16074, -15552, -14785, -13787, -12572, -11160, -9572, -7835, -5974, -4020, -2002, 46, 2095, 4110, 6061, 7917, 9648, 11228, 12632, 13837, 14825,
     15581, 16091, 16350, 16351, 16096, 15588, 14835, 13850, 12647, 11245, 9667, 7937, 6083, 4133, 2118, 70, -1979, -3997, -5952, -7814, -9553,
     -11143, -12557, -13774, -14775, -15544, -16069, -16342, -16358, -16117, -15623, -14884, -13912, -12720, -11330, -9761, -8039, -6191, -4245, -2233, -186, 1863,
     3884, 5843, 7711, 9458, 11057, 12482, 13711, 14724, 15507, 16046, 16333, 16364, 16138, 15658, 14933, 13973, 12794, 11414, 9854, 8140, 6299,
     4358, 2349, 303, -1747, -3770, -5734, -7608, -9363, -10971, -12406, -13647, -14673, -15469, -16022, -16324, -16369, -16157, -15692, -14980, -14033, -12866,
     -11497, -9947, -8241, -6406, -4470, -2464, -420, 1631, 3656, 5625, 7505, 9267, 10884, 12329, 13582, 14621, 15430, 15997, 16313, 16373, 16176,
     15725, 15027, 14093, 12938, 11580, 10040, 8342, 6513, 4583, 2580, 536, -1515, -3543, -5515, -7401, -9170, -10796, -12252, -13516, -14568, -15390,
     -15972, -16302, -16377, -16194, -15757, -15073, -14152, -13009, -11662, -10132, -8442, -6620, -4694, -2695, -653, 1398, 3429, 5405, 7297, 9073, 10708,
     12174, 13450, 14514, 15350, 15945, 16290, 16379, 16211, 15789, 15119, 14211, 13080, 11744, 10223, 8542, 6727, 4806, 2810, 769, -1282, -3314,
     -5295, -7192, -8976, -10619, -12096, -13383, -14459, -15309, -15918, -16278, -16381, -16228, -15820, -15163, -14269, -13150, -11825, -10314, -8642, -6833, -4918,
     -2925, -886, 1166, 3200, 5184, 7087, 8878, 10530, 12017, 13315, 14404, 15267, 15890, 16264, 16382, 16243, 15850, 15207, 14326, 13219, 11905,
     10405, 8740, 6939, 5029, 3040, 1003, -1049, -3085, -5073, -6981, -8780, -10441, -11937, -13247, -14348, -15224, -15861, -16249, -16382, -16258, -15879,
     -15250, -14382, -13288, -11985, -10494, -8839, -7045, -5140, -3154, -1119, 933, 2971, 4962, 6876, 8681, 10350, 11857, 13178, 14291, 15181, 15832,
     16234, 16382, 16272, 15907, 15292, 14437, 13356, 12065, 10584, 8937, 7150, 5250, 3269, 1235, -816, -2856, -4851, -6770, -8582, -10260, -11776,
     -13108, -14234, -15137, -15801, -16218, -16380, -16285, -15935, -15334, -14492, -13423, -12143, -10673, -9035, -7255, -5361, -3383, -1352, 700, 2741, 4739,
     6663, 8482, 10168, 11695, 13038, 14176, 15092, 15770, 16201, 16378, 16298, 15961, 15374, 14546, 13490, 12221, 10761, 9132, 7359, 5471, 3497,
     1468, -583, -2626, -4627, -6556, -8382, -10077, -11613, -12967, -14117, -15046, -15738, -16184, -16375, -16309, -15987, -15414, -14600, -13555, -12299, -10849,
     -9228, -7463, -5581, -3611, -1584, 466, 2510, 4515, 6449, 8282, 9984, 11530, 12895, 14057, 14999, 15705, 16165, 16371, 16320, 16012, 15453,
     14652, 13621, 12375, 10936, 9325, 7567, 5690, 3725, 1700, -350, -2395, -4403, -6342, -8181, -9892, -11447, -12823, -13997, -14952, -15672, -16146,
     -16366, -16329, -16037, -15492, -14704, -13685, -12452, -11022, -9420, -7670, -5800, -3838, -1816, 233, 2280, 4290, 6234, 8080, 9798, 11363, 12750,
     13936, 14904, 15637, 16125, 16360, 16338, 16060, 15529, 14755, 13749, 12527, 11109, 9516, 7773, 5909, 3952, 1932, -116, -2164, -4178, -6126,
     -7978, -9705, -11279, -12676, -13874, -14855, -15602, -16104, -16354, -16347, -16083, -15566, -14805, -13812, -12602, -11194, -9610, -7876, -6017, -4065, -2048
  >>

\* samples = 220 ("~5ms at 44100Hz")
PilotCount == 220

\* samples = 4410 ("0.1s at 44.1kHz")
BeepCount == 4410

\* the rate the synthesis side declares for Unity: setframerate(44100), rate=44100
TargetRate == 44100

\* tone_data of the pilot tone: value & 0xFF, (value >> 8) & 0xFF per sample
pilot_tone_data ==
  [k \in 1..(2 * PilotCount) |-> LE16(PilotSamples[(k + 1) \div 2])[2 - (k % 2)]]

\* beep_data of the failure beep
beep_data ==
  [k \in 1..(2 * BeepCount) |->
     LE16(BeepPeriod[((((k + 1) \div 2) - 1) % 2205) + 1])[2 - (k % 2)]]

pilot_wav == wave_write(1, 2, TargetRate, pilot_tone_data)

\* beep_wav with the pilot tone reused as the failure tone
beep_wav_pilot == pilot_wav

beep_wav == wave_write(1, 2, TargetRate, beep_data)

----------------------------------------------------------------------------
(* Stereo to mono *)

\* mixed with the sum held in a 16-bit integer, which wraps around
mixed_int16(left_val, right_val) ==
  LET sum == (left_val + right_val) % 65536
  IN (IF sum >= 32768 THEN sum - 65536 ELSE sum) \div 2

\* mixed with C-style division, which truncates toward zero
mixed_trunc(left_val, right_val) == TruncDiv(left_val + right_val, 2)

\* mixed = (left_val + right_val) // 2   (Python floor division)
mixed(left_val, right_val) == (left_val + right_val) \div 2

\* the averaging loop over 4-byte frames into a zeroed bytearray of outlen bytes (an
\* even number, or at least half of the input); a slice assignment at the end of a
\* bytearray appends, so the result holds every whole 4-byte frame
mix_stereo(pcm, outlen) ==
  [k \in 1..(IF outlen >= 2 * (Len(pcm) \div 4) THEN outlen ELSE 2 * (Len(pcm) \div 4)) |->
     LET f == (k - 1) \div 2
     IN IF 4 * f + 3 < Len(pcm)
        THEN pack_h(mixed(unpack_h(pcm, 4 * f), unpack_h(pcm, 4 * f + 2)))[((k - 1) % 2) + 1]
        ELSE 0]

\* extract_pcm_from_wav(wav_data)
extract_pcm_from_wav(wav_data) ==
  LET w == wave_read(wav_data)
  IN IF ~w.ok THEN wav_data
     ELSE IF w.nchannels = 2 THEN mix_stereo(w.frames, w.nframes * 2)
     ELSE w.frames

----------------------------------------------------------------------------
(* synthesize_speech *)

None == [none |-> TRUE, bytes |-> <<>>]

Bytes(b) == [none |-> FALSE, bytes |-> b]

\* the names the degradation levels go by, in the order of the nested handlers;
\* the fourth handler of the code returns None, it builds no silence
Levels == <<"FullPipeline", "RawPcmFallback", "ToneOnly", "Silence">>

\* the "WAV details" block and the stereo conversion: wav_data after lines 483-546
analyse_wav(wav_data) ==
  LET w == wave_read(wav_data)
  IN IF w.ok /\ w.framerate # 0 /\ w.nchannels = 2 /\ w.sampwidth <= 4
     THEN wave_write(1, w.sampwidth, w.framerate, mix_stereo(w.frames, Len(w.frames) \div 2))
     ELSE wav_data

\* add_pilot without the comparison of the two formats
add_pilot_always(wav_data) ==
  LET pilot  == wave_read(pilot_wav)
      speech == wave_read(wav_data)
  IN IF ~speech.ok THEN wav_data
     ELSE wave_write(speech.nchannels, speech.sampwidth, speech.framerate,
                     pilot.frames \o speech.frames)

\* the pilot block: what lines 548-648 return for the wav_data they are given
add_pilot(wav_data) ==
  LET pilot  == wave_read(pilot_wav)
      speech == wave_read(wav_data)
  IN IF ~speech.ok THEN wav_data
     ELSE IF \/ pilot.nchannels # speech.nchannels
             \/ pilot.sampwidth # speech.sampwidth
             \/ pilot.framerate # speech.framerate
          THEN wav_data
     ELSE wave_write(speech.nchannels, speech.sampwidth, speech.framerate,
                     pilot.frames \o speech.frames)

\* level 1 once the audio/wav request has returned wav_data
full_pipeline(wav_data) == add_pilot(analyse_wav(wav_data))

\* pcm_to_wav with the header declaring the rate the service uses by default
pcm_to_wav_default_rate(pcm_data) == wave_write(1, 2, 22050, pcm_data)

\* level 2 once the audio/l16 request has returned pcm_data
pcm_to_wav(pcm_data) == wave_write(1, 2, TargetRate, pcm_data)

\* next_level with the handler after the next one taken
next_level_skip(l) == l + 2

\* the handler a failure at level l hands over to
next_level(l) == l + 1

----------------------------------------------------------------------------
(* Resampling *)
(* The code computes ratios, source positions and interpolated values in   *)
(* IEEE-754 doubles; the model computes the exact quotients. For the rate  *)
(* pairs SrcRates x TgtRates and the buffers of this model the doubles     *)
(* truncate to the same integers as the exact quotients. (With a source    *)
(* rate of 8000 or 16000 and a target of 48000 a double can fall just      *)
(* below an exact integer and int() then yields one less.)                 *)

\* target_length rounded to the nearest integer instead of truncated
target_length_round(n, src_rate, target_rate) == round_half_even(0, n * target_rate, src_rate)

\* target_length with the ratio inverted
target_length_inverse(n, src_rate, target_rate) == (n * src_rate) \div target_rate

\* target_length = int(len(samples) * ratio), ratio = target_rate / src_rate
\* (also int(len(float_samples) * unity_rate / source_rate) and
\* int(len(samples) / ratio) with ratio = source_rate / unity_rate)
target_length(n, src_rate, target_rate) == (n * target_rate) \div src_rate

\* linear_sample with the interpolated value rounded down (floor division)
linear_sample_floor(samples, i, src_rate, target_rate) ==
  LET src_idx_int == (i * src_rate) \div target_rate
      rem         == (i * src_rate) % target_rate
  IN IF src_idx_int >= Len(samples) - 1
     THEN samples[Len(samples)]
     ELSE ((target_rate - rem) * samples[src_idx_int + 1]
             + rem * samples[src_idx_int + 2]) \div target_rate

\* the interpolation loop of resample_audio: output sample i (0-based);
\* src_idx_float = i / ratio is the exact quotient i * src_rate / target_rate
linear_sample(samples, i, src_rate, target_rate) ==
  LET src_idx_int == (i * src_rate) \div target_rate
      rem         == (i * src_rate) % target_rate
  IN IF src_idx_int >= Len(samples) - 1
     THEN samples[Len(samples)]
     ELSE TruncDiv((target_rate - rem) * samples[src_idx_int + 1]
                     + rem * samples[src_idx_int + 2], target_rate)

\* the values the interpolation loop assigns to resampled[i], i = 0..target_length-1
resampled_values(samples, src_rate, target_rate) ==
  [k \in 1..target_length(Len(samples), src_rate, target_rate) |->
     linear_sample(samples, k - 1, src_rate, target_rate)]

\* resample_audio(pcm_data, src_rate, target_rate); np.frombuffer raises on an odd
\* byte length and the handler returns the original data
resample_audio(pcm_data, src_rate, target_rate) ==
  IF src_rate = target_rate THEN pcm_data
  ELSE IF Len(pcm_data) % 2 # 0 THEN pcm_data
  ELSE tobytes(resampled_values(frombuffer(pcm_data), src_rate, target_rate))

\* the "simple resampling" handler of fix_audio_for_unity (lines 326-348):
\* sample and hold into a zeroed array
simple_resample(pcm_data, source_rate, unity_rate) ==
  IF Len(pcm_data) % 2 # 0 THEN pcm_data
  ELSE LET samples == frombuffer(pcm_data)
       IN tobytes([k \in 1..target_length(Len(samples), source_rate, unity_rate) |->
                     LET src_idx_floor == ((k - 1) * source_rate) \div unity_rate
                     IN IF src_idx_floor < Len(samples)
                        THEN samples[src_idx_floor + 1] ELSE 0])

\* ndarray.astype(np.int16) of an integer-valued float: the low 16 bits, as the
\* x86-64 and AArch64 builds of NumPy produce them
astype_int16(v) == IF v % 65536 >= 32768 THEN (v % 65536) - 65536 ELSE v % 65536

\* interp1d(kind='cubic') of four samples y at the middle of the interval after
\* sample k (0-based), times 16: with four knots the not-a-knot spline is the one
\* cubic polynomial through the four points
cubic4_mid(y, k) ==
  IF k = 0 THEN 5 * y[1] + 15 * y[2] - 5 * y[3] + y[4]
  ELSE IF k = 1 THEN 9 * y[2] + 9 * y[3] - y[1] - y[4]
  ELSE y[1] - 5 * y[2] + 15 * y[3] + 5 * y[4]

\* TRUE where f(target_time) is known without solving the spline equations: every
\* target time is a source time or lies past the last one, the buffer is constant (the
\* spline of a constant is that constant), or there are four samples and the target
\* times are source times and interval middles
cubic_known(samples, source_rate, unity_rate) ==
  \/ \A i \in 0..(target_length(Len(samples), source_rate, unity_rate) - 1) :
        \/ (i * source_rate) % unity_rate = 0
        \/ (i * source_rate) \div unity_rate >= Len(samples) - 1
  \/ \A j \in 1..Len(samples) : samples[j] = samples[1]
  \/ Len(samples) = 4 /\ unity_rate = 2 * source_rate

\* f(target_time)[i] of interp1d(kind='cubic', bounds_error=False,
\* fill_value=(first, last)), in units of 1/(16 * 32768), where cubic_known holds:
\* the sample itself where the target time is a source time, the last sample past the
\* last source time, the cubic through four samples at an interval middle, and the
\* constant of a constant buffer anywhere else
cubic_value(samples, i, source_rate, unity_rate) ==
  LET pos == (i * source_rate) \div unity_rate
      rem == (i * source_rate) % unity_rate
  IN IF pos >= Len(samples) - 1 THEN 16 * samples[Len(samples)]
     ELSE IF rem = 0 THEN 16 * samples[pos + 1]
     ELSE IF Len(samples) = 4 /\ 2 * rem = unity_rate THEN cubic4_mid(samples, pos)
     ELSE 16 * samples[pos + 1]

\* kernel_size = 3
kernel_size == 3

\* np.round(resampled_float * 32767)[i] of lines 238-296 for an array of at least 4
\* samples with scipy importable: interpolate, smooth the interior when there are
\* more than 10 samples, scale by 32767, round
high_quality_value(samples, i, tl, source_rate, unity_rate) ==
  LET c(j) == cubic_value(samples, j, source_rate, unity_rate)
  IN IF tl > 10 /\ i >= kernel_size /\ i < tl - kernel_size
     THEN LET S == c(i - 1) + c(i) + c(i + 1)
          IN round_half_even(S \div 48, 32768 * (S % 48) - S, 48 * 32768)
     ELSE round_half_even(c(i) \div 16, 32768 * (c(i) % 16) - c(i), 16 * 32768)

\* resampled[i] of lines 296-306: the rounded value narrowed to int16 (max_val is
\* taken from the int16 array, so "max_val > 32767" is never true and nothing is
\* rescaled)
high_quality_sample(samples, i, tl, source_rate, unity_rate) ==
  astype_int16(high_quality_value(samples, i, tl, source_rate, unity_rate))

\* the values fix_audio_for_unity computes for resampled[i] before they are stored in
\* the int16 array: np.round(resampled_float * 32767) on the cubic path, the source
\* sample picked (or the 0 left in place) in the simple resampling handler
unity_values(samples, source_rate, unity_rate, env) ==
  LET tl == target_length(Len(samples), source_rate, unity_rate)
  IN IF ~env.scipy \/ Len(samples) < 4
     THEN frombuffer(simple_resample(tobytes(samples), source_rate, unity_rate))
     ELSE [k \in 1..tl |-> high_quality_value(samples, k - 1, tl, source_rate, unity_rate)]

\* fix_audio_for_unity without the "sample rates match" shortcut
fix_audio_for_unity_always(pcm_data, source_rate, unity_rate, env) ==
  IF Len(pcm_data) % 2 # 0 THEN pcm_data
  ELSE LET samples == frombuffer(pcm_data)
           tl      == target_length(Len(samples), source_rate, unity_rate)
       IN IF ~env.scipy \/ Len(samples) < 4
          THEN simple_resample(pcm_data, source_rate, unity_rate)
          ELSE tobytes([k \in 1..tl |->
                          high_quality_sample(samples, k - 1, tl, source_rate,
                                              unity_rate)])

\* fix_audio_for_unity(pcm_data, source_rate, unity_rate); env.scipy says whether
\* "from scipy import interpolate" succeeds. An odd byte length makes both
\* np.frombuffer calls raise; a failed import, or fewer than 4 samples (interp1d
\* raises ValueError), runs the simple resampling handler
fix_audio_for_unity(pcm_data, source_rate, unity_rate, env) ==
  IF source_rate = unity_rate THEN pcm_data
  ELSE IF Len(pcm_data) % 2 # 0 THEN pcm_data
  ELSE LET samples == frombuffer(pcm_data)
           tl      == target_length(Len(samples), source_rate, unity_rate)
       IN IF ~env.scipy \/ Len(samples) < 4
          THEN simple_resample(pcm_data, source_rate, unity_rate)
          ELSE tobytes([k \in 1..tl |->
                          high_quality_sample(samples, k - 1, tl, source_rate,
                                              unity_rate)])

\* where the function stands once level l is entered
PcOf(l) == IF l = 1 THEN "wav" ELSE IF l = 2 THEN "pcm" ELSE IF l = 3 THEN "beep" ELSE "none"

----------------------------------------------------------------------------
(* Inputs *)

\* sample values of the exhaustive inputs
Values == {-32768, -1, 0, 1, 32767}

\* all sample sequences of at most n samples
SeqsUpTo(n) == UNION {[1..k -> Values] : k \in 0..n}

\* the downmix scenario [(100,200),(300,400)] and a frame of equal negative samples
ScenarioSeqs == {<<100, 200, 300, 400>>, <<-3, -3, -32768, -32768>>}

SampleSeqs == SeqsUpTo(MaxLen) \cup ScenarioSeqs

\* sample rates the service may answer with: its default and the rate Unity expects
ServiceRates == {22050, TargetRate}

\* well-formed 16-bit answers to the audio/wav request
ValidWavs ==
  {wave_write(ch, 2, r, tobytes(s)) :
     ch \in 1..2, r \in ServiceRates, s \in {t \in SampleSeqs : Len(t) % 2 = 0}}
  \cup {wave_write(1, 2, r, tobytes(s)) : r \in ServiceRates, s \in SampleSeqs}

\* answers that are no 16-bit WAV: empty, headerless PCM, an 8-bit WAV, a RIFF/AVI,
\* a header cut short
OddWavs ==
  { <<>>, tobytes(<<1, -1>>), <<73, 68, 51, 3, 0, 0, 0, 0, 0, 0, 0, 0>>,
    wave_write(1, 1, TargetRate, <<128, 127>>),
    wave_write(2, 1, TargetRate, <<128, 127, 1, 2, 3, 4>>),
    RIFF \o LE32(4) \o <<65, 86, 73, 32>>,
    SubSeq(wave_write(1, 2, TargetRate, <<>>), 1, 20) }

\* channel counts a WAV header may declare to the code: mono, stereo and one more
ChannelCounts == 1..3

\* well-formed 16-bit answers with more than two channels
MultiWavs ==
  {wave_write(ch, 2, r, tobytes(s)) :
     ch \in ChannelCounts \ {1, 2}, r \in ServiceRates, s \in {t \in SampleSeqs : Len(t) = 3}}

WavInputs == ValidWavs \cup OddWavs \cup MultiWavs

\* answers to the audio/l16 request: whole samples, and a payload with an odd byte
PcmInputs == {tobytes(s) : s \in SampleSeqs} \cup {tobytes(s) \o <<7>> : s \in SeqsUpTo(1)}

\* source rates and target rates of the resampling calls
SrcRates == {22050, TargetRate, 48000}

TgtRates == {8000} \cup SrcRates

\* the length scenario: n samples of the constant 1000
ConstSeqs == {[i \in 1..n |-> 1000] : n \in 0..MaxConstLen}

\* a full-scale square wave
LongSeqs == {[i \in 1..12 |-> IF i % 2 = 1 THEN 32767 ELSE -32768]}

\* full-scale steps of four samples
StepSeqs == {<<-32768, -32768, 32767, 32767>>, <<32767, 32767, -32768, -32768>>}

ResampleSeqs == SampleSeqs \cup ConstSeqs \cup LongSeqs \cup StepSeqs

\* PCM arguments of the resampling calls, a trailing odd byte included
PcmBuffers == {tobytes(s) : s \in ResampleSeqs} \cup {tobytes(s) \o <<7>> : s \in SeqsUpTo(1)}

\* the environments of fix_audio_for_unity: scipy importable or not
Envs == {[scipy |-> b] : b \in BOOLEAN}

\* bytes per sample a WAV header may declare to the code: 8, 16 and 24 bits
SampleWidths == 1..3

NoArgs == [pcm |-> <<>>, src_rate |-> 0, target_rate |-> 0, channels |-> 0,
           sample_width |-> 0, scipy |-> FALSE]

\* bytes: the value returned; raw: the sample values computed before they were stored
\* as 16-bit samples (empty when the input is returned); error: the exception the call
\* raised, "" when it returned (the three functions catch Exception around their whole
\* body and return data from the handler, so no call changes it)
NoOut == [bytes |-> <<>>, raw |-> <<>>, error |-> "",
          channels |-> 0, sample_width |-> 0, framerate |-> 0]

----------------------------------------------------------------------------
(* synthesize_speech as a state machine *)
(* One call of synthesize_speech(text, synthesizer). A try block "raises"  *)
(* when the request made in it raises (levels 1 and 2) or when building    *)
(* the beep raises (level 3). The diagnostic file dumps are wrapped in     *)
(* their own try/except and change nothing that is returned.               *)

\* read_call before the first read()
NoRead == [size |-> -1, out_data |-> <<>>, outcome |-> "none"]

\* DebugAudioSource.__init__
InitSource ==
  /\ buffer = <<>>
  /\ bytes_read = 0
  /\ is_recording = TRUE
  /\ input_pos = 0
  /\ returned = <<>>
  /\ read_call = NoRead

NoCallback == [name |-> "none", outcome |-> "none"]

\* MyRecognizeCallback.__init__, and the two threads of recognize_from_stdin once the
\* monitor thread is started and recognize_using_websocket is called
InitRecognize ==
  /\ done = FALSE
  /\ callback = NoCallback
  /\ transcripts = 0
  /\ main_pc = "recognize"
  /\ monitor_pc = "test"

\* main of the text-to-speech service, at "for line in sys.stdin" for the first time
InitLoop ==
  /\ loop_pc = "next"
  /\ handled = <<>>
  /\ stdout = <<>>

Init ==
  /\ pc = "idle"
  /\ level = 0
  /\ failed = {}
  /\ synthesizer = FALSE
  /\ wav_in = None
  /\ pcm_in = None
  /\ result = None
  /\ fn = "none"
  /\ args = NoArgs
  /\ out = NoOut
  /\ InitSource
  /\ InitRecognize
  /\ InitLoop

\* the call: "if not synthesizer: ... return None", else the outer try is entered
Enter ==
  /\ pc = "idle"
  /\ \E s \in BOOLEAN :
       /\ synthesizer' = s
       /\ IF s THEN /\ pc' = PcOf(1)
                    /\ level' = 1
                    /\ UNCHANGED result
               ELSE /\ pc' = "done"
                    /\ result' = None
                    /\ UNCHANGED level
  /\ UNCHANGED <<failed, wav_in, pcm_in, PureVars, ServiceVars>>

\* a try block at level l raised: its except handler runs the next level
Fail(l) ==
  /\ failed' = failed \cup {l}
  /\ level' = next_level(l)
  /\ pc' = PcOf(next_level(l))

\* level 1: the audio/wav request and everything done with its answer
SynthesizeWav ==
  /\ pc = "wav"
  /\ \/ /\ Fail(1)
        /\ UNCHANGED <<wav_in, result>>
     \/ \E content \in WavInputs :
          /\ wav_in' = Bytes(content)
          /\ result' = Bytes(full_pipeline(content))
          /\ pc' = "done"
          /\ UNCHANGED <<level, failed>>
  /\ UNCHANGED <<synthesizer, pcm_in, PureVars, ServiceVars>>

\* level 2: the audio/l16 request, wrapped in a WAV header
PcmFallback ==
  /\ pc = "pcm"
  /\ \/ /\ Fail(2)
        /\ UNCHANGED <<pcm_in, result>>
     \/ \E content \in PcmInputs :
          /\ pcm_in' = Bytes(content)
          /\ result' = Bytes(pcm_to_wav(content))
          /\ pc' = "done"
          /\ UNCHANGED <<level, failed>>
  /\ UNCHANGED <<synthesizer, wav_in, PureVars, ServiceVars>>

\* level 3: the beep; any exception while it is built reaches the last handler
BeepFallback ==
  /\ pc = "beep"
  /\ \/ /\ Fail(3)
        /\ UNCHANGED result
     \/ /\ result' = Bytes(beep_wav)
        /\ pc' = "done"
        /\ UNCHANGED <<level, failed>>
  /\ UNCHANGED <<synthesizer, wav_in, pcm_in, PureVars, ServiceVars>>

\* the last handler: "Even creating a simple beep failed" ... return None
ReturnNone ==
  /\ pc = "none"
  /\ result' = None
  /\ pc' = "done"
  /\ UNCHANGED <<level, failed, synthesizer, wav_in, pcm_in, PureVars, ServiceVars>>

Next == Enter \/ SynthesizeWav \/ PcmFallback \/ BeepFallback \/ ReturnNone

Spec == Init /\ [][Next]_vars


----------------------------------------------------------------------------
(* The conversion functions, each called once on its own *)

\* resample_audio(pcm_data, src_rate, target_rate)
CallResampleAudio ==
  /\ fn = "none"
  /\ \E pcm \in PcmBuffers, sr \in SrcRates, tr \in TgtRates :
       /\ fn' = "resample_audio"
       /\ args' = [NoArgs EXCEPT !.pcm = pcm, !.src_rate = sr, !.target_rate = tr]
       /\ out' = [NoOut EXCEPT
                    !.bytes = resample_audio(pcm, sr, tr),
                    !.raw = IF sr = tr \/ Len(pcm) % 2 # 0 THEN <<>>
                            ELSE resampled_values(frombuffer(pcm), sr, tr)]
       /\ UNCHANGED <<AdaptVars, ServiceVars>>

\* fix_audio_for_unity(pcm_data, source_rate, unity_rate), on the inputs for which
\* the cubic interpolant is known
CallFixAudio ==
  /\ fn = "none"
  /\ \E pcm \in PcmBuffers, sr \in SrcRates, tr \in TgtRates, env \in Envs :
       /\ (env.scipy /\ sr # tr /\ Len(pcm) % 2 = 0) => cubic_known(frombuffer(pcm), sr, tr)
       /\ fn' = "fix_audio_for_unity"
       /\ args' = [NoArgs EXCEPT !.pcm = pcm, !.src_rate = sr, !.target_rate = tr,
                                 !.scipy = env.scipy]
       /\ out' = [NoOut EXCEPT
                    !.bytes = fix_audio_for_unity(pcm, sr, tr, env),
                    !.raw = IF sr = tr \/ Len(pcm) % 2 # 0 THEN <<>>
                            ELSE unity_values(frombuffer(pcm), sr, tr, env)]
       /\ UNCHANGED <<AdaptVars, ServiceVars>>

\* channels, sample_width and framerate as extract_pcm_from_wav reads them
wav_details(wav_data) ==
  LET w == wave_read(wav_data)
  IN [channels |-> w.nchannels, sample_width |-> w.sampwidth, framerate |-> w.framerate]

\* extract_pcm_from_wav on the WAV that wave writes for a payload declared as ch
\* channels of sw bytes per sample; the payload may end in a partial frame
CallExtract ==
  /\ fn = "none"
  /\ \E ch \in ChannelCounts, sw \in SampleWidths, r \in ServiceRates, pcm \in PcmInputs :
       /\ LET wav_data == wave_write(ch, sw, r, pcm)
           d        == wav_details(wav_data)
          IN /\ fn' = "extract_pcm_from_wav"
             /\ args' = [NoArgs EXCEPT !.pcm = pcm, !.src_rate = r, !.channels = ch,
                                       !.sample_width = sw]
             /\ out' = [NoOut EXCEPT
                          !.bytes = extract_pcm_from_wav(wav_data),
                          !.channels = d.channels,
                          !.sample_width = d.sample_width,
                          !.framerate = d.framerate]
             /\ UNCHANGED <<AdaptVars, ServiceVars>>

NextPure == CallResampleAudio \/ CallFixAudio \/ CallExtract

SpecPure == Init /\ [][NextPure]_vars

----------------------------------------------------------------------------
(* Claims about synthesize_speech *)

\* RIFF/WAVE header with fmt and data chunks
IsWav(b) == wave_read(b).ok

Returned == pc = "done" /\ synthesizer

\* C1: whatever the input and whichever stages fail, the call returns a non-empty
\* playable blob, never None and never an empty result
C1_AlwaysPlayable ==
  Returned => ~result.none /\ result.bytes # <<>> /\ IsWav(result.bytes)

\* C2: the degradation level only moves forward one level at a time, a level is
\* entered only when the level before it failed, no earlier level is entered again,
\* and the blob returned comes from the first level that did not fail
C2_Step ==
  /\ failed \subseteq failed'
  /\ level' # level => /\ level' = level + 1
                       /\ level' <= Len(Levels)
                       /\ level >= 1 => level \in failed'
  /\ (pc # "done" /\ pc' = "done" /\ ~result'.none) =>
        /\ level' = level
        /\ level \notin failed'
        /\ \A l \in 1..(level - 1) : l \in failed'

C2_ForwardOnly == [][C2_Step]_vars

\* C2 witness: the beep is returned after the WAV and the PCM level both failed
C2_Witness == pc = "done" /\ level = 3 /\ failed = {1, 2} /\ result = Bytes(beep_wav)

\* the answer to the audio/wav request does not start with RIFF
Malformed == ~wav_in.none /\ (Len(wav_in.bytes) < 4 \/ SubSeq(wav_in.bytes, 1, 4) # RIFF)

\* C3: a malformed container (first 4 bytes not RIFF) still yields a non-empty valid
\* WAV blob, and the malformed input itself is never what is returned
C3_MalformedStillWav ==
  (Returned /\ Malformed) =>
     /\ ~result.none
     /\ result.bytes # <<>>
     /\ IsWav(result.bytes)
     /\ result.bytes # wav_in.bytes

\* the header of blob b declares mono, 16-bit, TargetRate
DeclaresTarget(b) ==
  LET w == wave_read(b)
  IN w.ok /\ w.nchannels = 1 /\ w.sampwidth = 2 /\ w.framerate = TargetRate

\* C5: every blob returned for a decodable input declares the target format (mono,
\* 16-bit, target rate); a source rate other than the target rate never reaches the
\* output header
C5_TargetFormat ==
  (Returned /\ ~result.none /\ (level = 1 => IsWav(wav_in.bytes))) =>
     DeclaresTarget(result.bytes)

----------------------------------------------------------------------------
(* Claims about the conversion functions *)

\* the samples of the PCM argument and of the returned PCM
InSamples == frombuffer(args.pcm)

OutSamples == frombuffer(out.bytes)

Resampled == fn \in {"resample_audio", "fix_audio_for_unity"} /\ Len(args.pcm) % 2 = 0

\* round(len(source) * targetRate / sourceRate)
RoundedLength == round_half_even(0, Len(InSamples) * args.target_rate, args.src_rate)

\* 100 samples of 1000 resampled from 22050 Hz to 48000 Hz
LengthScenario ==
  /\ args.pcm = tobytes([i \in 1..100 |-> 1000])
  /\ args.src_rate = 22050
  /\ args.target_rate = 48000

\* C4: when level 1 completes on a 16-bit mono or stereo WAV, the PCM payload
\* returned is the pilot tone followed by the downmixed speech resampled to the target
\* rate; the pilot tone is never left out
C4_PilotThenSpeech ==
  LET w    == wave_read(wav_in.bytes)
      mono == IF w.nchannels = 2 THEN mix_stereo(w.frames, Len(w.frames) \div 2)
              ELSE w.frames
  IN (Returned /\ level = 1 /\ w.ok /\ w.sampwidth = 2 /\ w.nchannels \in 1..2) =>
       \E env \in Envs :
          wave_read(result.bytes).frames
            = pilot_tone_data \o fix_audio_for_unity(mono, w.framerate, TargetRate, env)

\* extract_pcm_from_wav has run on the WAV written for a 16-bit buffer of whole frames
Extracted16 ==
  /\ fn = "extract_pcm_from_wav"
  /\ args.sample_width = 2
  /\ Len(args.pcm) % (2 * args.channels) = 0

\* C6 as claimed: decoding the encoding of a 16-bit mono or stereo buffer returns
\* the buffer bit for bit, with the channel count, rate and depth it was written with
C6_BitIdentical ==
  Extracted16 =>
     /\ out.bytes = args.pcm
     /\ out.channels = args.channels
     /\ out.framerate = args.src_rate
     /\ out.sample_width = 2

\* one sample per stereo frame: the mean of left and right, rounded down
FloorMeans(s) == [f \in 1..(Len(s) \div 2) |-> (s[2 * f - 1] + s[2 * f]) \div 2]

\* one sample per stereo frame: the mean of left and right, truncated toward zero
TruncMeans(s) == [f \in 1..(Len(s) \div 2) |-> TruncDiv(s[2 * f - 1] + s[2 * f], 2)]

\* C6 as amended: the header read back carries the channel count, rate and depth
\* written; a mono buffer comes back bit for bit, a stereo buffer comes back as its
\* mono downmix
C6_RoundTrip ==
  Extracted16 =>
     /\ out.channels = args.channels
     /\ out.framerate = args.src_rate
     /\ out.sample_width = 2
     /\ args.channels = 1 => out.bytes = args.pcm
     /\ args.channels = 2 => out.bytes = tobytes(FloorMeans(InSamples))

\* C6 witness: a stereo buffer written and read back is not the buffer
C6_Witness ==
  /\ Extracted16
  /\ args.channels = 2
  /\ args.pcm = tobytes(<<100, 200, 300, 400>>)
  /\ out.bytes # args.pcm

\* C7 as claimed: every stereo frame is downmixed to the mean of left and right
\* under truncating (toward zero) division
C7_TruncatingMean ==
  (Extracted16 /\ args.channels = 2) => OutSamples = TruncMeans(InSamples)

\* C7 as amended: every stereo frame is downmixed to the mean of left and right
\* under floor division (toward minus infinity); [(100,200),(300,400)] gives [150, 350]
C7_FloorMean ==
  (Extracted16 /\ args.channels = 2) =>
     /\ Len(OutSamples) = Len(InSamples) \div 2
     /\ \A f \in 1..Len(OutSamples) :
          /\ 2 * OutSamples[f] <= InSamples[2 * f - 1] + InSamples[2 * f]
          /\ 2 * OutSamples[f] + 1 >= InSamples[2 * f - 1] + InSamples[2 * f]
     /\ InSamples = <<100, 200, 300, 400>> => OutSamples = <<150, 350>>

\* C7 witness: a frame whose left + right is negative and odd has been downmixed
C7_Witness ==
  /\ Extracted16
  /\ args.channels = 2
  /\ \E f \in 1..Len(OutSamples) :
       /\ InSamples[2 * f - 1] + InSamples[2 * f] < 0
       /\ (InSamples[2 * f - 1] + InSamples[2 * f]) % 2 = 1
       /\ OutSamples[f] # TruncMeans(InSamples)[f]

\* C8 as claimed: the output has exactly round(len * targetRate / sourceRate) samples
C8_RoundedLength == Resampled => Len(OutSamples) = RoundedLength

\* C8 as amended: the output has exactly len * targetRate / sourceRate samples with
\* the fraction dropped; 100 samples at 22050 Hz give 217 samples at 48000 Hz
C8_TruncatedLength ==
  Resampled =>
     /\ Len(out.bytes) = 2 * ((Len(InSamples) * args.target_rate) \div args.src_rate)
     /\ LengthScenario => Len(OutSamples) = 217

\* C8 witness: the length scenario has run on the linear path
C8_Witness == fn = "resample_audio" /\ LengthScenario /\ Len(OutSamples) = RoundedLength - 1

\* C9: on every resampling path the output length is within one sample of
\* round(len * sr2 / sr1)
C9_LengthWithinOne == Resampled => Abs(Len(OutSamples) - RoundedLength) <= 1

\* C9 witness: the error fallback of the high-quality path returned one sample less
\* than the rounded length
C9_Witness ==
  /\ fn = "fix_audio_for_unity"
  /\ ~args.scipy
  /\ LengthScenario
  /\ Len(OutSamples) = RoundedLength - 1

\* C10: with equal source and target rate either resampler returns its input
\* unchanged
C10_Identity ==
  (fn \in {"resample_audio", "fix_audio_for_unity"} /\ args.src_rate = args.target_rate) =>
     out.bytes = args.pcm

\* C10 witness: a buffer long enough to be smoothed went through the high-quality
\* resampler at equal rates
C10_Witness ==
  /\ fn = "fix_audio_for_unity"
  /\ args.scipy
  /\ args.src_rate = args.target_rate
  /\ Len(args.pcm) = 24
  /\ out.bytes = args.pcm

\* C11: every sample value resample computes lies within [-32768, 32767] before it
\* is stored as a 16-bit sample, on the linear and on the high-quality path
C11_NoClip ==
  Resampled => \A k \in 1..Len(out.raw) : out.raw[k] \in -32768..32767

----------------------------------------------------------------------------
(* Claims about unsupported formats *)

\* the parsed answer to the audio/wav request
SpeechIn == wave_read(wav_in.bytes)

\* C12: a channel count other than 1 or 2 makes the downmix fail with
\* UnsupportedFormatError and the call surface it at once: the buffer is not passed
\* through as if it were mono, no blob is returned and no fallback level is entered
C12_UnsupportedChannels ==
  /\ (fn = "extract_pcm_from_wav" /\ args.channels \notin {1, 2}) =>
        out.error = "UnsupportedFormatError"
  /\ (Returned /\ ~wav_in.none /\ SpeechIn.ok /\ SpeechIn.nchannels \notin {1, 2}) =>
        result.none /\ level = 1

\* C13: decoding a container whose header declares a bit depth other than 16 always
\* fails with ContainerError; its payload is never returned as PCM nor processed further
C13_DepthFatal ==
  /\ (fn = "extract_pcm_from_wav" /\ args.sample_width # 2) =>
        out.error = "ContainerError" /\ out.bytes = <<>>
  /\ (Returned /\ ~wav_in.none /\ SpeechIn.ok /\ SpeechIn.sampwidth # 2) => result.none

----------------------------------------------------------------------------
(* Claims about the fallback levels *)

\* C14: at level 2 the blob returned is a WAV container declaring mono, 16-bit, the
\* target rate, whose data chunk has the byte length of the raw PCM received and holds
\* exactly those bytes
C14_PcmWrapped ==
  (Returned /\ level = 2 /\ ~result.none) =>
     /\ DeclaresTarget(result.bytes)
     /\ SubSeq(result.bytes, 37, 40) = DATA
     /\ U32(result.bytes, 40) = Len(pcm_in.bytes)
     /\ SubSeq(result.bytes, 45, Len(result.bytes)) = pcm_in.bytes

\* C14 witness: level 2 returned after level 1 failed, with three samples of raw PCM
C14_Witness ==
  /\ Returned
  /\ level = 2
  /\ failed = {1}
  /\ pcm_in = Bytes(tobytes(<<-32768, 1, 32767>>))
  /\ Len(result.bytes) = 50

\* the samples of the blob returned
ResultSamples == frombuffer(wave_read(result.bytes).frames)

\* the number of places where the samples s go from non-negative to negative: one per
\* cycle of a sine that starts at phase 0
Cycles(s) == Cardinality({i \in 1..(Len(s) - 1) : s[i] >= 0 /\ s[i + 1] < 0})

ToneOnly == Returned /\ level = 3 /\ ~result.none

\* C15 as claimed: at level 3 the blob returned holds exactly the pilot tone that the
\* full pipeline prepends: same frequency, duration and amplitude
C15_ToneIsPilot ==
  ToneOnly => DeclaresTarget(result.bytes) /\ wave_read(result.bytes).frames = pilot_tone_data

\* C15 as amended: at level 3 the blob returned is a mono 16-bit WAV at the target rate
\* holding a failure beep of its own and nothing else: 0.1 s (4410 samples) of an
\* 880 Hz sine (88 cycles) with a peak of half of full scale; it is not the pilot tone
\* (220 samples, 440 Hz, a tenth of full scale)
C15_ToneIsBeep ==
  ToneOnly =>
     /\ DeclaresTarget(result.bytes)
     /\ 10 * Len(ResultSamples) = TargetRate
     /\ Cycles(ResultSamples) = 88
     /\ \A i \in 1..Len(ResultSamples) : 2 * Abs(ResultSamples[i]) < 32767
     /\ \E i \in 1..Len(ResultSamples) : 2 * Abs(ResultSamples[i]) > 32767 - 4
     /\ wave_read(result.bytes).frames # pilot_tone_data

\* C15 witness: level 3 returned its tone after levels 1 and 2 failed
C15_Witness ==
  /\ ToneOnly
  /\ failed = {1, 2}
  /\ Len(result.bytes) = 44 + 2 * BeepCount

----------------------------------------------------------------------------
(* Claims about the downmix and the buffers *)

\* every stereo frame of the PCM argument has equal left and right samples
EqualChannels == \A f \in 1..(Len(InSamples) \div 2) : InSamples[2 * f - 1] = InSamples[2 * f]

\* C17: for a stereo buffer whose frames all have L = R, over the full 16-bit range,
\* the downmix outputs exactly L for every frame and one sample per frame
C17_EqualChannelsExact ==
  (Extracted16 /\ args.channels = 2 /\ EqualChannels) =>
     /\ Len(OutSamples) = Len(InSamples) \div 2
     /\ Len(out.bytes) = 2 * Len(OutSamples)
     /\ \A f \in 1..Len(OutSamples) : OutSamples[f] = InSamples[2 * f - 1]

\* C17 witness: frames (-3, -3) and (-32768, -32768) have been downmixed
C17_Witness ==
  /\ Extracted16
  /\ args.channels = 2
  /\ InSamples = <<-3, -3, -32768, -32768>>
  /\ OutSamples = <<-3, -32768>>

----------------------------------------------------------------------------
(* Claims about the pilot tone *)

\* level 1 returned the pilot tone spliced in front of 16-bit speech at the target rate
Spliced ==
  /\ Returned
  /\ level = 1
  /\ ~wav_in.none
  /\ SpeechIn.ok
  /\ SpeechIn.nchannels \in {1, 2}
  /\ SpeechIn.sampwidth = 2
  /\ SpeechIn.framerate = TargetRate

\* the samples in front of the speech (one mono sample per speech frame)
PilotPart == SubSeq(ResultSamples, 1, Len(ResultSamples) - SpeechIn.nframes)

\* the largest magnitude among the samples s
Peak(s) == CHOOSE m \in {Abs(s[i]) : i \in 1..Len(s)} : \A i \in 1..Len(s) : Abs(s[i]) <= m

\* C18: the pilot tone has exactly 220 samples (440 Hz, 0.005 s, amplitude 0.1,
\* 44100 Hz), rises linearly over its first 5% and falls linearly over its last 5%,
\* its first and last samples are smaller in magnitude than its peak, and no sample
\* exceeds a tenth of full scale
C18_PilotFaded ==
  Spliced =>
     LET n    == Len(PilotPart)
         fade == n \div 20
     IN /\ n = 220
        /\ \A i \in 0..(fade - 1) : 10 * fade * Abs(PilotPart[i + 1]) <= 32768 * i
        /\ \A i \in (n - fade)..(n - 1) : 10 * fade * Abs(PilotPart[i + 1]) <= 32768 * (n - i)
        /\ Abs(PilotPart[1]) < Peak(PilotPart)
        /\ Abs(PilotPart[n]) < Peak(PilotPart)
        /\ \A i \in 1..n : 10 * Abs(PilotPart[i]) <= 32768

\* C19: a byte sequence whose length is not a multiple of channels * 2 is rejected
\* with FormatError by the resamplers and by the downmix; it is not truncated, padded
\* or returned unchanged
C19_PartialFrameRejected ==
  /\ (fn \in {"resample_audio", "fix_audio_for_unity"} /\ Len(args.pcm) % 2 # 0) =>
        out.error = "FormatError" /\ out.bytes = <<>>
  /\ (fn = "extract_pcm_from_wav" /\ args.sample_width = 2
        /\ Len(args.pcm) % (2 * args.channels) # 0) =>
        out.error = "FormatError" /\ out.bytes = <<>>

----------------------------------------------------------------------------
(* Claims about linear interpolation *)

\* resample_audio has interpolated a buffer of whole samples
Interpolated ==
  /\ fn = "resample_audio"
  /\ args.src_rate # args.target_rate
  /\ Len(args.pcm) % 2 = 0

\* i0 = floor(p) for output sample i (0-based), p = i / ratio = i * src_rate / target_rate
SourceIndex(i) == (i * args.src_rate) \div args.target_rate

\* frac * target_rate for output sample i, frac = p - i0
FracNum(i) == (i * args.src_rate) % args.target_rate

\* ((1 - frac) * s[i0] + frac * s[i0 + 1]) * target_rate for output sample i
BlendNum(i) ==
  (args.target_rate - FracNum(i)) * InSamples[SourceIndex(i) + 1]
    + FracNum(i) * InSamples[SourceIndex(i) + 2]

\* C20 as claimed: output sample i is (1 - frac) * s[i0] + frac * s[i0 + 1] rounded to
\* the nearest integer, and the last source sample whenever i0 >= len(s) - 1
C20_RoundedBlend ==
  Interpolated =>
     \A i \in 0..(Len(OutSamples) - 1) :
        IF SourceIndex(i) >= Len(InSamples) - 1
        THEN OutSamples[i + 1] = InSamples[Len(InSamples)]
        ELSE 2 * Abs(OutSamples[i + 1] * args.target_rate - BlendNum(i)) <= args.target_rate

\* C20 as amended: output sample i is (1 - frac) * s[i0] + frac * s[i0 + 1] with the
\* fraction dropped (truncated toward zero), and the last source sample whenever
\* i0 >= len(s) - 1, so that s[i0 + 1] is read only where it exists
C20_TruncatedBlend ==
  Interpolated =>
     \A i \in 0..(Len(OutSamples) - 1) :
        IF SourceIndex(i) >= Len(InSamples) - 1
        THEN OutSamples[i + 1] = InSamples[Len(InSamples)]
        ELSE /\ SourceIndex(i) + 2 <= Len(InSamples)
             /\ Abs(OutSamples[i + 1] * args.target_rate) <= Abs(BlendNum(i))
             /\ Abs(BlendNum(i) - OutSamples[i + 1] * args.target_rate) < args.target_rate

\* C20 witness: between the samples 0 and -1 the value -0.91875 has come out as 0,
\* and the last output sample is the last source sample
C20_Witness ==
  /\ Interpolated
  /\ InSamples = <<0, -1>>
  /\ args.src_rate = 22050
  /\ args.target_rate = 48000
  /\ OutSamples = <<0, 0, 0, -1>>

----------------------------------------------------------------------------
(* Claims about the high-quality path *)

\* fix_audio_for_unity has run its cubic path on a buffer of whole samples
HighPath ==
  /\ fn = "fix_audio_for_unity"
  /\ args.scipy
  /\ args.src_rate # args.target_rate
  /\ Len(args.pcm) % 2 = 0
  /\ Len(InSamples) >= 4

\* some value computed on the cubic path lies outside the 16-bit range
Overshoots == \E k \in 1..Len(out.raw) : Abs(out.raw[k]) > 32767

\* C21: when an interpolated value exceeds the 16-bit range the whole buffer is scaled
\* down in proportion so that the peak lands exactly at 32767; no out-of-range value is
\* narrowed by wraparound or clipped before the peak is taken
C21_ScaledToPeak ==
  (HighPath /\ Overshoots) =>
     /\ Len(OutSamples) = Len(out.raw)
     /\ Peak(OutSamples) = 32767
     /\ \A k \in 1..Len(out.raw) :
          Abs(OutSamples[k] * Peak(out.raw) - out.raw[k] * 32767) <= Peak(out.raw)

\* the cubic interpolation of fix_audio_for_unity could not be performed on a buffer of
\* whole samples: scipy cannot be imported, or interp1d refuses fewer than 4 samples
CubicUnavailable ==
  /\ fn = "fix_audio_for_unity"
  /\ args.src_rate # args.target_rate
  /\ Len(args.pcm) % 2 = 0
  /\ ~args.scipy \/ Len(InSamples) < 4

\* C22: when the cubic interpolation cannot be performed, the import of the library
\* failing included, the result is what the linear resampler returns for that input,
\* not sample-and-hold output and not the unresampled input
C22_FallsBackToLinear ==
  CubicUnavailable =>
     out.bytes = resample_audio(args.pcm, args.src_rate, args.target_rate)

----------------------------------------------------------------------------
(* Claims about the splice step *)

\* the speech WAV as it stands when the splice step begins
BeforeSplice == analyse_wav(wav_in.bytes)

\* level 1 returned for a speech WAV whose format is not the pilot's
FormatDiffers ==
  /\ Returned
  /\ level = 1
  /\ ~wav_in.none
  /\ wave_read(BeforeSplice).ok
  /\ \/ wave_read(BeforeSplice).nchannels # 1
     \/ wave_read(BeforeSplice).sampwidth # 2
     \/ wave_read(BeforeSplice).framerate # TargetRate

\* C23: when the format of the decoded speech differs from the pilot's (mono, 16-bit,
\* 44100 Hz) the call returns the speech WAV byte for byte as it stood before the
\* splice step: no pilot tone in front, no resampling
C23_SpeechOnly ==
  FormatDiffers =>
     /\ result = Bytes(BeforeSplice)
     /\ wave_read(result.bytes).framerate = SpeechIn.framerate
     /\ wave_read(result.bytes).nframes = SpeechIn.nframes
     /\ SpeechIn.nchannels # 2 => result.bytes = wav_in.bytes

\* C23 witness: a stereo 22050 Hz answer came back as its mono downmix at 22050 Hz
C23_Witness ==
  /\ FormatDiffers
  /\ wav_in = Bytes(wave_write(2, 2, 22050, tobytes(<<100, 200, 300, 400>>)))
  /\ result = Bytes(wave_write(1, 2, 22050, tobytes(<<150, 350>>)))

----------------------------------------------------------------------------
(* DebugAudioSource of the speech-to-text service *)
(* The input stream hands out its bytes in order; byte k of the stream is  *)
(* modelled as the number k, so that a lost, repeated or reordered byte is *)
(* visible in what read() returns.                                         *)

\* longest input stream, in bytes
MaxStream == 6
\* largest size asked of read()
MaxSize == 3

\* the argument of self._input.read(1024)
ReadSize == 1024

\* bytes a+1..b of the input stream
StreamBytes(a, b) == [k \in 1..(b - a) |-> a + k]

\* self.buffer[:size], size >= 0
slice_to(b, size) == SubSeq(b, 1, Min(size, Len(b)))

\* self.buffer[size:], size >= 0
slice_from_first(b, size) == SubSeq(b, 2, Len(b))

slice_from(b, size) == SubSeq(b, Min(size, Len(b)) + 1, Len(b))

\* what "chunk = self._input.read(1024)" can do: hand out the next n bytes, n = 0 when
\* nothing is available, or raise
InputOutcomes == {"chunk", "BrokenPipeError", "Exception"}

\* one call of read(size)
Read ==
  \E size \in 0..MaxSize, outcome \in InputOutcomes,
     n \in 0..Min(ReadSize, MaxStream - input_pos) :
    LET refill == Len(buffer) < size
        chunk  == StreamBytes(input_pos, input_pos + n)
        filled == IF refill THEN buffer \o chunk ELSE buffer
        ret(data, how) == read_call' = [size |-> size, out_data |-> data, outcome |-> how]
    IN /\ (~refill \/ outcome # "chunk") => n = 0
       /\ ~refill => outcome = "chunk"
       /\ IF outcome = "chunk"
            THEN /\ input_pos' = input_pos + n
                 /\ bytes_read' = bytes_read + n
                 /\ UNCHANGED is_recording
                 /\ IF filled # <<>>
                      THEN /\ buffer' = slice_from(filled, size)
                           /\ returned' = returned \o slice_to(filled, size)
                           /\ ret(slice_to(filled, size), "data")
                      ELSE /\ buffer' = filled
                           /\ UNCHANGED returned
                           /\ ret(<<>>, "empty")
            ELSE /\ is_recording' = IF outcome = "BrokenPipeError" THEN FALSE ELSE is_recording
                 /\ ret(<<>>, outcome)
                 /\ UNCHANGED <<buffer, bytes_read, input_pos, returned>>
       /\ UNCHANGED <<AdaptVars, PureVars, RecognizeVars, LoopVars>>

NextRead == Read

SpecRead == Init /\ [][NextRead]_vars

\* C24: after any sequence of read(size) calls the chunks returned so far, followed by
\* the internal buffer, are exactly the bytes taken from the input so far, the chunk
\* returned last has at most size bytes, and bytes_read counts the bytes taken
C24_StreamPreserved ==
  /\ returned \o buffer = StreamBytes(0, input_pos)
  /\ read_call.size >= 0 => Len(read_call.out_data) <= read_call.size
  /\ bytes_read = input_pos

\* three bytes were taken for a read of two, and a later read returned the third
C24_Witness ==
  /\ input_pos = 3
  /\ returned = <<1, 2, 3>>
  /\ buffer = <<>>
  /\ read_call.size = 2
  /\ read_call.out_data = <<3>>

----------------------------------------------------------------------------
(* The done flag of the speech-to-text service *)
(* Three threads share MyRecognizeCallback.done: the websocket client runs *)
(* the callbacks, monitor_stdin runs as a daemon thread, and the main      *)
(* thread calls recognize_using_websocket and then waits on the flag. The  *)
(* time stamps last_read_time and last_data_time only decide what the      *)
(* monitor logs and are left out.                                          *)

\* most transcript lines written to stdout
MaxTranscripts == 2

\* how the write of a transcript in on_transcription can end; "skipped" is an empty
\* transcript list, for which nothing is written
WriteOutcomes == {"written", "BrokenPipeError", "Exception", "skipped"}

\* self.done after a callback that found it equal to d
callback_done_reset(name, outcome, d) ==
  IF name \in {"on_error", "on_inactivity_timeout", "on_close"} THEN TRUE
  ELSE IF name = "on_transcription" /\ outcome = "BrokenPipeError" THEN TRUE
  ELSE FALSE

callback_done(name, outcome, d) ==
  IF name \in {"on_error", "on_inactivity_timeout", "on_close"} THEN TRUE
  ELSE IF name = "on_transcription" /\ outcome = "BrokenPipeError" THEN TRUE
  ELSE d

\* what no callback changes
CallbackVars == <<main_pc, monitor_pc, AdaptVars, PureVars, SourceVars, LoopVars>>

\* on_transcription: the transcript line is written to stdout, unless the list is empty
OnTranscription ==
  \E outcome \in WriteOutcomes :
    /\ outcome = "written" => transcripts < MaxTranscripts
    /\ callback' = [name |-> "on_transcription", outcome |-> outcome]
    /\ transcripts' = IF outcome = "written" THEN transcripts + 1 ELSE transcripts
    /\ done' = callback_done("on_transcription", outcome, done)
    /\ UNCHANGED CallbackVars

\* on_error: self.done = True
OnError ==
  /\ callback' = [name |-> "on_error", outcome |-> "none"]
  /\ done' = callback_done("on_error", "none", done)
  /\ UNCHANGED <<transcripts, CallbackVars>>

\* on_inactivity_timeout: self.done = True
OnInactivityTimeout ==
  /\ callback' = [name |-> "on_inactivity_timeout", outcome |-> "none"]
  /\ done' = callback_done("on_inactivity_timeout", "none", done)
  /\ UNCHANGED <<transcripts, CallbackVars>>

\* on_connected only logs
OnConnected ==
  /\ callback' = [name |-> "on_connected", outcome |-> "none"]
  /\ done' = callback_done("on_connected", "none", done)
  /\ UNCHANGED <<transcripts, CallbackVars>>

\* on_close: self.done = True
OnClose ==
  /\ callback' = [name |-> "on_close", outcome |-> "none"]
  /\ done' = callback_done("on_close", "none", done)
  /\ UNCHANGED <<transcripts, CallbackVars>>

\* on_data only logs and stamps the time
OnData ==
  /\ callback' = [name |-> "on_data", outcome |-> "none"]
  /\ done' = callback_done("on_data", "none", done)
  /\ UNCHANGED <<transcripts, CallbackVars>>

WaitVars == <<done, callback, transcripts, monitor_pc, AdaptVars, PureVars, SourceVars, LoopVars>>

\* recognize_using_websocket returns
RecognizeReturns ==
  /\ main_pc = "recognize"
  /\ main_pc' = "test"
  /\ UNCHANGED WaitVars

\* recognize_using_websocket raises: "my_callback.done = True; sys.exit(1)"
RecognizeRaises ==
  /\ main_pc = "recognize"
  /\ done' = TRUE
  /\ main_pc' = "ended"
  /\ UNCHANGED <<callback, transcripts, monitor_pc, AdaptVars, PureVars, SourceVars, LoopVars>>

\* "while not my_callback.done:" of the main thread
WaitTest ==
  /\ main_pc = "test"
  /\ main_pc' = IF done THEN "ended" ELSE "sleep"
  /\ UNCHANGED WaitVars

\* "time.sleep(0.1)"
WaitSleep ==
  /\ main_pc = "sleep"
  /\ main_pc' = "test"
  /\ UNCHANGED WaitVars

\* KeyboardInterrupt in the wait loop
Interrupt ==
  /\ main_pc \in {"test", "sleep"}
  /\ main_pc' = "ended"
  /\ UNCHANGED WaitVars

\* "while not callback.done:" of the monitor thread
MonitorTest ==
  /\ monitor_pc = "test"
  /\ monitor_pc' = IF done THEN "ended" ELSE "body"
  /\ UNCHANGED <<done, callback, transcripts, main_pc, AdaptVars, PureVars, SourceVars, LoopVars>>

\* the body of the monitor loop: the two checks and "time.sleep(1)", or the handler
\* of an exception raised in them
MonitorBody ==
  /\ monitor_pc = "body"
  /\ monitor_pc' = "test"
  /\ UNCHANGED <<done, callback, transcripts, main_pc, AdaptVars, PureVars, SourceVars, LoopVars>>

NextRecognize ==
  \/ OnTranscription \/ OnError \/ OnInactivityTimeout \/ OnConnected \/ OnClose \/ OnData
  \/ RecognizeReturns \/ RecognizeRaises \/ WaitTest \/ WaitSleep \/ Interrupt
  \/ MonitorTest \/ MonitorBody

\* the two loops keep running: a thread that can take a step of its loop takes it
SpecRecognize ==
  /\ Init
  /\ [][NextRecognize]_vars
  /\ WF_vars(WaitTest \/ WaitSleep)
  /\ WF_vars(MonitorTest \/ MonitorBody)

Setters == {"on_error", "on_inactivity_timeout", "on_close"}

DoneSet ==
  \/ callback.name \in Setters
  \/ callback.name = "on_transcription" /\ callback.outcome = "BrokenPipeError"

\* C25: done starts false; on_error, on_inactivity_timeout, on_close and a broken pipe
\* while writing a transcript each leave it true; no step of a callback or of the
\* monitor thread takes it from true to false; and once it is true, the monitor loop
\* exits and the main wait loop, if the main thread is in it, exits
C25_DoneFlag ==
  /\ ~done
  /\ [](DoneSet => done)
  /\ [][done => done']_vars
  /\ done ~> (monitor_pc = "ended")
  /\ (done /\ main_pc \in {"test", "sleep"}) ~> (main_pc = "ended")

\* a broken pipe in on_transcription set the flag while both loops were running, and
\* both have ended
C25_Witness ==
  /\ done
  /\ callback = [name |-> "on_transcription", outcome |-> "BrokenPipeError"]
  /\ transcripts = 1
  /\ main_pc = "ended"
  /\ monitor_pc = "ended"

----------------------------------------------------------------------------
(* The main loop of the text-to-speech service *)
(* A line is a sequence of characters ending in a line feed. What          *)
(* synthesize_speech returns for a line is one of its three kinds of       *)
(* result: None, empty bytes, or a WAV blob, which here wraps the number   *)
(* of the line so that blobs of different lines differ.                    *)

\* most lines read from stdin
MaxLines == 3
\* longest line, in characters before the line feed
MaxLineLen == 2

Whitespace == {" ", "\n"}

RECURSIVE lstrip(_)
lstrip(line) ==
  IF line # <<>> /\ Head(line) \in Whitespace THEN lstrip(Tail(line)) ELSE line

RECURSIVE rstrip(_)
rstrip(line) ==
  IF line # <<>> /\ line[Len(line)] \in Whitespace
    THEN rstrip(SubSeq(line, 1, Len(line) - 1))
    ELSE line

\* line.strip()
strip(line) == rstrip(lstrip(line))

\* the lines stdin can deliver
RawLines ==
  {Append(l, "\n") : l \in UNION {[1..n -> {" ", "x"}] : n \in 0..MaxLineLen}}

\* "if audio_data:" with the branches of "is not None" instead
truthy_not_none(audio_data) == ~audio_data.none

\* "if audio_data:": None and empty bytes are both false
truthy(audio_data) == ~audio_data.none /\ audio_data.bytes # <<>>

\* what synthesize_speech can return for line number n
SynthResults(n) == {None, Bytes(<<>>), Bytes(pcm_to_wav(tobytes(<<n>>)))}

\* the entry of a line just read: its text after strip(), no call of synthesize_speech
\* yet, nothing written
NewLine(line) == [line |-> line, called |-> FALSE, audio_data |-> None, written |-> FALSE]

LoopOthers == <<AdaptVars, PureVars, SourceVars, RecognizeVars>>

\* "for line in sys.stdin: line = line.strip(); if line:"
ReadLine ==
  /\ loop_pc = "next"
  /\ Len(handled) < MaxLines
  /\ \E raw \in RawLines :
       /\ handled' = Append(handled, NewLine(strip(raw)))
       /\ loop_pc' = IF strip(raw) # <<>> THEN "synthesize" ELSE "next"
  /\ UNCHANGED <<stdout, LoopOthers>>

\* "audio_data = synthesize_speech(line, synthesizer); if audio_data: ... else: ..."
CallSynthesize ==
  /\ loop_pc = "synthesize"
  /\ \E audio_data \in SynthResults(Len(handled)) :
       /\ handled' = [handled EXCEPT ![Len(handled)].called = TRUE,
                                      ![Len(handled)].audio_data = audio_data]
       /\ loop_pc' = IF truthy(audio_data) THEN "write" ELSE "next"
  /\ UNCHANGED <<stdout, LoopOthers>>

\* "sys.stdout.buffer.write(audio_data); sys.stdout.buffer.flush()", or the
\* BrokenPipeError they raise when the reader is gone
WriteAudio ==
  /\ loop_pc = "write"
  /\ \E ok \in BOOLEAN :
       IF ok
         THEN /\ stdout' = Append(stdout, handled[Len(handled)].audio_data.bytes)
              /\ handled' = [handled EXCEPT ![Len(handled)].written = TRUE]
              /\ loop_pc' = "next"
         ELSE /\ loop_pc' = "ended"
              /\ UNCHANGED <<handled, stdout>>
  /\ UNCHANGED LoopOthers

\* stdin is at its end
EndOfInput ==
  /\ loop_pc = "next"
  /\ loop_pc' = "ended"
  /\ UNCHANGED <<handled, stdout, LoopOthers>>

\* KeyboardInterrupt anywhere in the loop
InterruptLoop ==
  /\ loop_pc \in {"next", "synthesize", "write"}
  /\ loop_pc' = "ended"
  /\ UNCHANGED <<handled, stdout, LoopOthers>>

NextLoop == ReadLine \/ CallSynthesize \/ WriteAudio \/ EndOfInput \/ InterruptLoop

SpecLoop == Init /\ [][NextLoop]_vars

\* the blobs of the entries marked written, in the order of the entries
RECURSIVE WrittenBlobs(_)
WrittenBlobs(h) ==
  IF h = <<>> THEN <<>>
  ELSE (IF Head(h).written THEN <<Head(h).audio_data.bytes>> ELSE <<>>) \o WrittenBlobs(Tail(h))

\* the synthesis returned nothing: None or no bytes
Nothing(audio_data) == audio_data.none \/ audio_data.bytes = <<>>

\* nothing more is to be done for entry e
Finished(e) == e.line = <<>> \/ (e.called /\ Nothing(e.audio_data)) \/ e.written

\* C26: lines are handled one at a time in arrival order: every line before the last
\* one read is finished, stdout holds exactly the blobs of the lines that were written,
\* one each in the order of the lines, blank lines and lines whose synthesis returned
\* None or nothing have written nothing, and after such a synthesis the loop is back at
\* reading the next line
C26_OneLineAtATime ==
  /\ [](\A k \in 1..(Len(handled) - 1) : Finished(handled[k]))
  /\ [](stdout = WrittenBlobs(handled))
  /\ [](\A k \in 1..Len(handled) :
          (handled[k].line = <<>> \/ Nothing(handled[k].audio_data)) => ~handled[k].written)
  /\ [][(loop_pc = "synthesize" /\ handled' # handled /\ Nothing(handled'[Len(handled)].audio_data))
          => loop_pc' = "next"]_vars

\* a line whose synthesis returned None, then a blank line, then a line whose blob was
\* written
C26_Witness ==
  /\ Len(handled) = 3
  /\ handled[1].line # <<>> /\ handled[1].called /\ handled[1].audio_data = None
  /\ handled[2].line = <<>>
  /\ handled[3].written
  /\ stdout = <<pcm_to_wav(tobytes(<<3>>))>>
  /\ loop_pc = "next"

====
